---- MODULE Spec2Model ----
(***************************************************************************)
(* A model of src/src/check_logic/app.py: the static configuration checks, *)
(* the walk of check_alarm_history over one alarm's history, the per-ARN   *)
(* alarm map and the __main__ pipeline.                                    *)
(*                                                                         *)
(* Python values.  A dict is a function whose DOMAIN is the set of keys    *)
(* present; d.get(k) is the set {d[k]} when k is a key and {} (None)       *)
(* otherwise.  A raised exception is a record [exc |-> <name>]; "none" is  *)
(* a normal return.  Instants and durations are whole seconds.             *)
(***************************************************************************)
EXTENDS Integers, Sequences, FiniteSets, TLC

VARIABLES
    \* check_alarm_history
    alarm_history,   \* the argument: the history items as delivered
    h_pos,           \* how many items of reversed(alarm_history) were taken
    h_locals,        \* the function's local variables (LoopBody's record)
    h_processed,     \* the positions in alarm_history of the items taken so
                     \* far, in the order taken
    h_pc,            \* "idle" | "loop" | "returned" | "raised"
    \* basic_alarm_checks
    alarm_list,      \* the argument
    s_pos,           \* how many alarms completed the loop body
    s_buckets,       \* the four lists being built
    s_pc,            \* "idle" | "loop" | "returned" | "raised"
    \* __main__ and the alarm map
    metrics_alarm_list,
    alarm_map,
    basic_alarm_checks_dict,
    m_pos,           \* how many alarms completed the advisory loop body
    m_outcomes,      \* what the advisory service did for each alarm taken
    m_persisted,     \* the items put to the description table, in order
    m_pc             \* "idle" | "start" | "mapped" | "checked" | "advisory"
                     \* | "persist" | "done" | "aborted" | "merge"

hvars == <<alarm_history, h_pos, h_locals, h_processed, h_pc>>
svars == <<alarm_list, s_pos, s_buckets, s_pc>>
mvars == <<metrics_alarm_list, alarm_map, basic_alarm_checks_dict, m_pos,
           m_outcomes, m_persisted, m_pc>>
vars == <<hvars, svars, mvars>>

---------------------------------------------------------------------------
\* Bounds of the model.
MaxHistory == 2

\* Generic helpers.
Range(s) == {s[i] : i \in 1..Len(s)}

SeqsUpTo(S, n) == UNION {[1..k -> S] : k \in 0..n}

\* reversed(seq)
reversed(s) == [i \in 1..Len(s) |-> s[Len(s) + 1 - i]]

\* dict.get(key): {value} or {} for None
get(d, k) == IF k \in DOMAIN d THEN {d[k]} ELSE {}

\* d[k] = v on a dict
Put(d, k, v) == [x \in (DOMAIN d) \cup {k} |-> IF x = k THEN v ELSE d[x]]

\* datetime.timedelta(hours=h, minutes=m), in seconds
timedelta(h, m) == h * 3600 + m * 60

---------------------------------------------------------------------------
\* History items.

SummaryTrigger == "Alarm updated from OK to ALARM"
SummaryResolve == "Alarm updated from ALARM to OK"

\* A startDate string that does not match "%Y-%m-%dT%H:%M:%S.%f%z"; every
\* other startDate string is the instant it denotes.
BadDate == -1

\* The old state's start instant of the modelled items.
T0 == timedelta(1, 0)

\* One state payload of HistoryData; start is {} when the startDate key is
\* missing from stateReasonData.
StatePayload(value, start) ==
    [stateValue |-> value,
     stateReasonData |->
        IF start = {} THEN [version |-> "1.0"]
        ELSE [version |-> "1.0", startDate |-> CHOOSE t \in start : TRUE]]

\* The HistoryData string: JSON text of a state update, or text that is not
\* JSON.
StateJson(oldValue, oldStart, newValue, newStart) ==
    [valid |-> TRUE,
     value |-> [version |-> "1.0",
                oldState |-> StatePayload(oldValue, oldStart),
                newState |-> StatePayload(newValue, newStart)]]

ConfigJson == [valid |-> TRUE, value |-> [version |-> "1.0", type |-> "Update"]]

NotJson == [valid |-> FALSE]

HistoryItem(ts, type, summary, data) ==
    [Timestamp |-> ts, HistoryItemType |-> type, HistorySummary |-> summary,
     HistoryData |-> data]

Timestamps == {1, 2}

TriggerGaps == {timedelta(12, 0), timedelta(12, 0) + 1,
                timedelta(24, 0), timedelta(24, 0) + 1}

ResolveDurations == {timedelta(0, 2), timedelta(0, 2) + 1,
                     timedelta(48, 0) - 1, timedelta(48, 0)}

\* Items as the monitoring service writes them.
WellFormedPayloads ==
    {<<"StateUpdate", SummaryTrigger, StateJson("OK", {T0}, "ALARM", {T0 + g})>>
        : g \in TriggerGaps}
    \cup
    {<<"StateUpdate", SummaryResolve, StateJson("ALARM", {T0}, "OK", {T0 + d})>>
        : d \in ResolveDurations}
    \cup
    {<<"StateUpdate", "Alarm updated from INSUFFICIENT_DATA to OK",
       StateJson("INSUFFICIENT_DATA", {T0}, "OK", {T0 + timedelta(0, 1)})>>,
     <<"ConfigurationUpdate", "Alarm \"cpu\" updated", ConfigJson>>}

\* State updates whose embedded payload cannot be read.
MalformedPayloads ==
    {<<"StateUpdate", SummaryTrigger, StateJson("OK", {T0}, "ALARM", {})>>,
     <<"StateUpdate", SummaryTrigger,
       StateJson("OK", {BadDate}, "ALARM", {T0 + timedelta(12, 0)})>>,
     <<"StateUpdate", SummaryResolve, NotJson>>}

\* A state update from OK to ALARM whose summary is worded differently.
VariantPayloads ==
    {<<"StateUpdate", "Alarm state changed from OK to ALARM",
       StateJson("OK", {T0}, "ALARM", {T0 + timedelta(12, 0)})>>}

HistoryItems ==
    {HistoryItem(ts, p[1], p[2], p[3]) :
        ts \in Timestamps,
        p \in WellFormedPayloads \cup MalformedPayloads \cup VariantPayloads}

---------------------------------------------------------------------------
\* get_alarm_start_time and check_alarm_history.

Ok(v) == [exc |-> "none", value |-> v]
Raise(e) == [exc |-> e]

get_alarm_start_time(alarm, state_type) ==
    IF state_type \notin {"newState", "oldState"} THEN Raise("ValueError")
    ELSE IF ~alarm.HistoryData.valid THEN Raise("JSONDecodeError")
    ELSE LET alarm_hist == alarm.HistoryData.value IN
         IF state_type \notin DOMAIN alarm_hist THEN Raise("KeyError")
         ELSE IF "stateReasonData" \notin DOMAIN alarm_hist[state_type]
              THEN Raise("KeyError")
         ELSE IF "startDate" \notin DOMAIN alarm_hist[state_type].stateReasonData
              THEN Raise("KeyError")
         ELSE LET alarm_start_time_string ==
                      alarm_hist[state_type].stateReasonData.startDate IN
              IF alarm_start_time_string = BadDate THEN Raise("ValueError")
              ELSE Ok(alarm_start_time_string)

\* The locals of check_alarm_history on entry.  time_between_close_and_trigger
\* is {} while the name is unbound.
InitLocals ==
    [long_lived_alarm_count |-> 0,
     long_term_issue_count |-> 0,
     recurring_in_12_hours_count |-> 0,
     short_alarm_count |-> 0,
     time_between_close_and_trigger |-> {},
     exc |-> "none"]

\* TriggerBranch with the 24-hour test the wrong way round.
TriggerBranchReversed24h(st, alarm) ==
    LET alarm_start_time == get_alarm_start_time(alarm, "newState")
        prev_alarm_close_time == get_alarm_start_time(alarm, "oldState")
    IN  IF alarm_start_time.exc # "none"
        THEN [st EXCEPT !.exc = alarm_start_time.exc]
        ELSE IF prev_alarm_close_time.exc # "none"
        THEN [st EXCEPT !.exc = prev_alarm_close_time.exc]
        ELSE LET d == alarm_start_time.value - prev_alarm_close_time.value IN
             [st EXCEPT
                !.time_between_close_and_trigger = {d},
                !.long_term_issue_count =
                    IF d >= timedelta(24, 0) THEN @ + 1 ELSE @,
                !.recurring_in_12_hours_count =
                    IF d <= timedelta(12, 0) THEN @ + 1 ELSE @]

\* TriggerBranch with the 12-hour test exclusive.
TriggerBranchExclusive12h(st, alarm) ==
    LET alarm_start_time == get_alarm_start_time(alarm, "newState")
        prev_alarm_close_time == get_alarm_start_time(alarm, "oldState")
    IN  IF alarm_start_time.exc # "none"
        THEN [st EXCEPT !.exc = alarm_start_time.exc]
        ELSE IF prev_alarm_close_time.exc # "none"
        THEN [st EXCEPT !.exc = prev_alarm_close_time.exc]
        ELSE LET d == alarm_start_time.value - prev_alarm_close_time.value IN
             [st EXCEPT
                !.time_between_close_and_trigger = {d},
                !.long_term_issue_count =
                    IF d <= timedelta(24, 0) THEN @ + 1 ELSE @,
                !.recurring_in_12_hours_count =
                    IF d < timedelta(12, 0) THEN @ + 1 ELSE @]

\* The OK-to-ALARM branch of the loop body.
TriggerBranch(st, alarm) ==
    LET alarm_start_time == get_alarm_start_time(alarm, "newState")
        prev_alarm_close_time == get_alarm_start_time(alarm, "oldState")
    IN  IF alarm_start_time.exc # "none"
        THEN [st EXCEPT !.exc = alarm_start_time.exc]
        ELSE IF prev_alarm_close_time.exc # "none"
        THEN [st EXCEPT !.exc = prev_alarm_close_time.exc]
        ELSE LET d == alarm_start_time.value - prev_alarm_close_time.value IN
             [st EXCEPT
                !.time_between_close_and_trigger = {d},
                !.long_term_issue_count =
                    IF d <= timedelta(24, 0) THEN @ + 1 ELSE @,
                !.recurring_in_12_hours_count =
                    IF d <= timedelta(12, 0) THEN @ + 1 ELSE @]

\* The ALARM-to-OK branch of the loop body.  Both print calls format
\* time_between_close_and_trigger, which is bound only once a Trigger item
\* has been through TriggerBranch: unbound, the print raises
\* UnboundLocalError after the counter was incremented.
ResolveBranch(st, alarm) ==
    LET alarm_close_time == get_alarm_start_time(alarm, "newState")
        alarm_start_time == get_alarm_start_time(alarm, "oldState")
    IN  IF alarm_close_time.exc # "none"
        THEN [st EXCEPT !.exc = alarm_close_time.exc]
        ELSE IF alarm_start_time.exc # "none"
        THEN [st EXCEPT !.exc = alarm_start_time.exc]
        ELSE LET time_to_solve == alarm_close_time.value - alarm_start_time.value
                 printed == IF st.time_between_close_and_trigger = {}
                            THEN "UnboundLocalError" ELSE "none"
             IN  IF time_to_solve >= timedelta(48, 0)
                 THEN [st EXCEPT !.long_lived_alarm_count = @ + 1,
                                 !.exc = printed]
                 ELSE IF time_to_solve <= timedelta(0, 2)
                 THEN [st EXCEPT !.short_alarm_count = @ + 1,
                                 !.exc = printed]
                 ELSE st

\* One iteration of the for loop of check_alarm_history.
LoopBody(st, alarm) ==
    IF alarm.HistoryItemType # "StateUpdate" THEN st
    ELSE IF alarm.HistorySummary = SummaryTrigger THEN TriggerBranch(st, alarm)
    ELSE IF alarm.HistorySummary = SummaryResolve THEN ResolveBranch(st, alarm)
    ELSE st

RECURSIVE WalkFrom(_, _, _)
WalkFrom(st, items, i) ==
    IF i > Len(items) \/ st.exc # "none" THEN st
    ELSE WalkFrom(LoopBody(st, items[i]), items, i + 1)

\* check_alarm_history as a function of its argument: the locals at the
\* return statement, or at the raise (exc # "none").
check_alarm_history(history) == WalkFrom(InitLocals, reversed(history), 1)

\* The dict check_alarm_history returns.
Counters(st) ==
    [long_lived_alarm_count |-> st.long_lived_alarm_count,
     long_term_issue_count |-> st.long_term_issue_count,
     recurring_in_12_hours_count |-> st.recurring_in_12_hours_count,
     short_alarm_count |-> st.short_alarm_count]

HistoryIdle ==
    /\ alarm_history = <<>>
    /\ h_pos = 0
    /\ h_locals = InitLocals
    /\ h_processed = <<>>
    /\ h_pc = "idle"

HistoryInit ==
    /\ alarm_history \in SeqsUpTo(HistoryItems, MaxHistory)
    /\ h_pos = 0
    /\ h_locals = InitLocals
    /\ h_processed = <<>>
    /\ h_pc = "loop"

\* The loop takes the next item of reversed(alarm_history).
HistoryLoopIteration ==
    /\ h_pc = "loop"
    /\ h_pos < Len(alarm_history)
    /\ LET alarm == reversed(alarm_history)[h_pos + 1]
           st == LoopBody(h_locals, alarm)
       IN  /\ h_locals' = st
           /\ h_processed' = Append(h_processed, Len(alarm_history) - h_pos)
           /\ h_pos' = h_pos + 1
           /\ h_pc' = IF st.exc = "none" THEN "loop" ELSE "raised"
    /\ UNCHANGED <<alarm_history, svars, mvars>>

\* The loop is exhausted: return the four counters.
HistoryReturn ==
    /\ h_pc = "loop"
    /\ h_pos = Len(alarm_history)
    /\ h_pc' = "returned"
    /\ UNCHANGED <<alarm_history, h_pos, h_locals, h_processed, svars, mvars>>

---------------------------------------------------------------------------
\* Alarms and the static checks.

MaxAlarmList == 2

\* A string as the sequence of its characters, so that str.strip() is computed.
IsSpace(c) == c \in {" ", "\t", "\n"}

RECURSIVE lstrip(_)
lstrip(s) == IF s # <<>> /\ IsSpace(Head(s)) THEN lstrip(Tail(s)) ELSE s

\* str.strip()
strip(s) == reversed(lstrip(reversed(lstrip(s))))

\* An alarm dict of describe_alarms.  Each of desc, thr, dp, act is {} when
\* the key is missing and {v} when it is present with value v.
Alarm(arn, desc, thr, dp, act) ==
    LET opt == [AlarmDescription |-> desc, Threshold |-> thr,
                DatapointsToAlarm |-> dp, AlarmActions |-> act]
        always == [AlarmArn |-> arn, AlarmName |-> arn, ActionsEnabled |-> TRUE,
                   OKActions |-> <<>>, InsufficientDataActions |-> <<>>]
        keys == (DOMAIN always) \cup {k \in DOMAIN opt : opt[k] # {}}
    IN  [k \in keys |->
            IF k \in DOMAIN always THEN always[k]
            ELSE CHOOSE v \in opt[k] : TRUE]

\* Python truthiness of alarm.get(key) for a numeric value: None and 0 are
\* falsy.
Falsy(o) == o = {} \/ o = {0}

alarm_has_description(alarm) ==
    LET alarm_desc == get(alarm, "AlarmDescription") IN
    IF alarm_desc = {} \/ (\E d \in alarm_desc : strip(d) = <<>>)
    THEN Ok(FALSE) ELSE Ok(TRUE)

alarm_has_actions(alarm) ==
    IF "AlarmActions" \notin DOMAIN alarm THEN Raise("KeyError")
    ELSE Ok(Len(alarm["AlarmActions"]) > 0)

alarm_theshold_too_high(alarm) ==
    LET alarm_threshold == get(alarm, "Threshold") IN
    IF Falsy(alarm_threshold) \/ (\E t \in alarm_threshold : t > 30)
    THEN Ok(TRUE) ELSE Ok(FALSE)

alarm_data_points_too_high(alarm) ==
    LET alarm_data_points == get(alarm, "DatapointsToAlarm") IN
    IF Falsy(alarm_data_points) \/ (\E n \in alarm_data_points : n > 15)
    THEN Ok(TRUE) ELSE Ok(FALSE)

CheckTypes == {"no_description", "high_threshold", "high_data_points", "no_actions"}

EmptyBuckets == [b \in CheckTypes |-> <<>>]

\* One iteration of the for loop of basic_alarm_checks on the lists b:
\* [buckets, exc].  The first three appends precede the call that can raise.
BasicChecksBody(b, alarm) ==
    LET b1 == IF ~alarm_has_description(alarm).value
              THEN [b EXCEPT !.no_description = Append(@, alarm)] ELSE b
        b2 == IF alarm_theshold_too_high(alarm).value
              THEN [b1 EXCEPT !.high_threshold = Append(@, alarm)] ELSE b1
        b3 == IF alarm_data_points_too_high(alarm).value
              THEN [b2 EXCEPT !.high_data_points = Append(@, alarm)] ELSE b2
        has == alarm_has_actions(alarm)
    IN  IF has.exc # "none" THEN [buckets |-> b3, exc |-> has.exc]
        ELSE [buckets |-> IF ~has.value
                          THEN [b3 EXCEPT !.no_actions = Append(@, alarm)]
                          ELSE b3,
              exc |-> "none"]

RECURSIVE BasicChecksFrom(_, _, _)
BasicChecksFrom(r, alarms, i) ==
    IF i > Len(alarms) \/ r.exc # "none" THEN r
    ELSE BasicChecksFrom(BasicChecksBody(r.buckets, alarms[i]), alarms, i + 1)

\* basic_alarm_checks as a function of its argument: [buckets, exc].
basic_alarm_checks(alarms) ==
    BasicChecksFrom([buckets |-> EmptyBuckets, exc |-> "none"], alarms, 1)

Descriptions == {{}, {<<" ", " ">>}, {<<"o", "k">>}}
Thresholds == {{}, {-1}, {0}, {30}, {31}}
DataPoints == {{}, {0}, {15}, {16}}
ActionLists == {{}, {<<>>}, {<<"sns">>}}

\* The alarms the static checks are run on.
StaticAlarms ==
    {Alarm("arn:1", d, t, n, a) :
        d \in Descriptions, t \in Thresholds, n \in DataPoints, a \in ActionLists}

StaticIdle ==
    /\ alarm_list = <<>>
    /\ s_pos = 0
    /\ s_buckets = EmptyBuckets
    /\ s_pc = "idle"

StaticInit ==
    /\ alarm_list \in SeqsUpTo(StaticAlarms, MaxAlarmList)
    /\ s_pos = 0
    /\ s_buckets = EmptyBuckets
    /\ s_pc = "loop"

\* The loop of basic_alarm_checks takes the next alarm.
StaticLoopIteration ==
    /\ s_pc = "loop"
    /\ s_pos < Len(alarm_list)
    /\ LET r == BasicChecksBody(s_buckets, alarm_list[s_pos + 1]) IN
        /\ s_buckets' = r.buckets
        /\ s_pos' = IF r.exc = "none" THEN s_pos + 1 ELSE s_pos
        /\ s_pc' = IF r.exc = "none" THEN "loop" ELSE "raised"
    /\ UNCHANGED <<alarm_list, hvars, mvars>>

\* The loop is exhausted: return the four buckets.
StaticReturn ==
    /\ s_pc = "loop"
    /\ s_pos = Len(alarm_list)
    /\ s_pc' = "returned"
    /\ UNCHANGED <<alarm_list, s_pos, s_buckets, hvars, mvars>>

---------------------------------------------------------------------------
\* The alarm map, the advisory service and __main__.

MaxAlarms == 2

\* The alarms of a run: a healthy one, one that fails every static check,
\* and one delivered without the AlarmActions key.
MainAlarms ==
    {Alarm(arn, c[1], c[2], c[3], c[4]) :
        arn \in {"arn:1", "arn:2"},
        c \in {<<{<<"o", "k">>}, {30}, {15}, {<<"sns">>}>>,
               <<{}, {31}, {}, {<<>>}>>,
               <<{<<"o", "k">>}, {30}, {15}, {}>>}}

EmptyMap == [arn \in {} |-> 0]

RECURSIVE AlarmMapFrom(_, _, _)
AlarmMapFrom(alarms_dict, alarms_list, i) ==
    IF i > Len(alarms_list) THEN alarms_dict
    ELSE LET alarm == alarms_list[i] IN
         AlarmMapFrom(
            Put(alarms_dict, alarm["AlarmArn"],
                [AlarmName |-> get(alarm, "AlarmName"),
                 AlarmDescription |-> get(alarm, "AlarmDescription"),
                 ActionsEnabled |-> get(alarm, "ActionsEnabled"),
                 OKActions |-> get(alarm, "OKActions"),
                 AlarmActions |-> get(alarm, "AlarmActions"),
                 InsufficientDataActions |-> get(alarm, "InsufficientDataActions")]),
            alarms_list, i + 1)

create_alarm_map(alarms_list) == AlarmMapFrom(EmptyMap, alarms_list, 1)

\* The order in which a dict built by create_alarm_map yields its keys: the
\* ARNs in order of first insertion.
RECURSIVE KeyOrderFrom(_, _, _)
KeyOrderFrom(keys, alarms_list, i) ==
    IF i > Len(alarms_list) THEN keys
    ELSE KeyOrderFrom(
            IF alarms_list[i]["AlarmArn"] \in Range(keys) THEN keys
            ELSE Append(keys, alarms_list[i]["AlarmArn"]),
            alarms_list, i + 1)

KeyOrder(alarms_list) == KeyOrderFrom(<<>>, alarms_list, 1)

\* The inner loop of create_alarm_with_flags over one bucket: [map, exc].
RECURSIVE FlagBucket(_, _, _, _)
FlagBucket(r, check_type, alarms_list, i) ==
    IF i > Len(alarms_list) \/ r.exc # "none" THEN r
    ELSE LET arn == alarms_list[i]["AlarmArn"] IN
         IF arn \notin DOMAIN r.map THEN [map |-> r.map, exc |-> "KeyError"]
         ELSE FlagBucket(
                [map |-> [r.map EXCEPT ![arn] = Put(@, check_type, TRUE)],
                 exc |-> "none"],
                check_type, alarms_list, i + 1)

\* The items() order of the dict basic_alarm_checks returns.
CheckTypeOrder == <<"no_description", "high_threshold", "high_data_points", "no_actions">>

RECURSIVE FlagsFrom(_, _, _)
FlagsFrom(r, checks_dict, k) ==
    IF k > Len(CheckTypeOrder) \/ r.exc # "none" THEN r
    ELSE FlagsFrom(FlagBucket(r, CheckTypeOrder[k], checks_dict[CheckTypeOrder[k]], 1),
                   checks_dict, k + 1)

\* create_alarm_with_flags: [map, exc]; the map is updated in place, so map
\* is the caller's alarm_map also when exc # "none".
create_alarm_with_flags(checks_dict, map) ==
    FlagsFrom([map |-> map, exc |-> "none"], checks_dict, 1)

\* What check_alarm_description returns or raises for one alarm.  The text
\* of a response is the continuation of the prefill '{"assessment":'.
\* completes tells whether prefill + text is JSON, and value what it decodes
\* to.
LlmJsonFull == [assessment |-> "vague", suggested_description |-> "cpu above 30"]
LlmJsonPartial == [assessment |-> "fine"]

AdvisoryResponses ==
    {Raise("ClientError"),
     Ok([content |-> <<[text |-> [completes |-> TRUE, value |-> LlmJsonFull]]>>]),
     Ok([content |-> <<[text |-> [completes |-> TRUE, value |-> LlmJsonPartial]]>>]),
     Ok([content |-> <<[text |-> [completes |-> FALSE]]>>])}

\* verify_llm_response.  The except clause formats llm_json, which is
\* unbound when json.loads raised: logging.error is never reached and the
\* handler raises UnboundLocalError.
verify_llm_response(llm_response) ==
    LET llm_text == llm_response.content[1].text IN
    IF llm_text.completes THEN Ok(llm_text.value)
    ELSE Raise("UnboundLocalError")

\* AdvisoryMerge replacing the alarm's record by the two advisory fields.
AdvisoryMergeWholeRecord(map, arn, llm_json_output) ==
    [map EXCEPT ![arn] =
        [DescriptionAssessment |-> get(llm_json_output, "assessment"),
         SuggestedDescription |-> get(llm_json_output, "suggested_description")]]

\* Lines 610-615 of __main__: the two assignments into the alarm's record.
AdvisoryMerge(map, arn, llm_json_output) ==
    [map EXCEPT ![arn] =
        Put(Put(@, "DescriptionAssessment", get(llm_json_output, "assessment")),
            "SuggestedDescription", get(llm_json_output, "suggested_description"))]

\* One iteration of the advisory loop of __main__ for the given response:
\* [map, exc].
AdvisoryBody(map, alarm, response) ==
    IF response.exc # "none" THEN [map |-> map, exc |-> response.exc]
    ELSE LET llm_json_output == verify_llm_response(response.value) IN
         IF llm_json_output.exc # "none"
         THEN [map |-> map, exc |-> llm_json_output.exc]
         ELSE [map |-> AdvisoryMerge(map, alarm["AlarmArn"], llm_json_output.value),
               exc |-> "none"]

\* How a response counts for the alarm it was given for.
Outcome(response) ==
    IF response.exc # "none" THEN "service_error"
    ELSE IF ~response.value.content[1].text.completes THEN "not_json"
    ELSE "json"

\* The item write_alarm_description_to_dynamo puts for one ARN.
Item(map, alarm_id) == Put(map[alarm_id], "id", alarm_id)

MainIdle ==
    /\ metrics_alarm_list = <<>>
    /\ alarm_map = EmptyMap
    /\ basic_alarm_checks_dict = EmptyBuckets
    /\ m_pos = 0
    /\ m_outcomes = <<>>
    /\ m_persisted = <<>>
    /\ m_pc = "idle"

\* retrieve_all_cw_alarms has returned the metric alarms.
MainInit ==
    /\ metrics_alarm_list \in SeqsUpTo(MainAlarms, MaxAlarms)
    /\ alarm_map = EmptyMap
    /\ basic_alarm_checks_dict = EmptyBuckets
    /\ m_pos = 0
    /\ m_outcomes = <<>>
    /\ m_persisted = <<>>
    /\ m_pc = "start"

MainCreateAlarmMap ==
    /\ m_pc = "start"
    /\ alarm_map' = create_alarm_map(metrics_alarm_list)
    /\ m_pc' = "mapped"
    /\ UNCHANGED <<metrics_alarm_list, basic_alarm_checks_dict, m_pos,
                   m_outcomes, m_persisted, hvars, svars>>

\* basic_alarm_checks(metrics_alarm_list); an exception ends the run.
MainBasicAlarmChecks ==
    /\ m_pc = "mapped"
    /\ LET r == basic_alarm_checks(metrics_alarm_list) IN
        /\ basic_alarm_checks_dict' =
              IF r.exc = "none" THEN r.buckets ELSE basic_alarm_checks_dict
        /\ m_pc' = IF r.exc = "none" THEN "checked" ELSE "aborted"
    /\ UNCHANGED <<metrics_alarm_list, alarm_map, m_pos, m_outcomes,
                   m_persisted, hvars, svars>>

\* write_basic_alarm_checks_to_dynamo: it catches what put_item raises, and
\* convert_invalid_types leaves the values of the modelled keys as they are.
MainWriteBasicAlarmChecks ==
    /\ m_pc = "checked"
    /\ m_pc' = "advisory"
    /\ UNCHANGED <<metrics_alarm_list, alarm_map, basic_alarm_checks_dict,
                   m_pos, m_outcomes, m_persisted, hvars, svars>>

\* One iteration of the advisory loop; an exception ends the run.
MainAdvisoryIteration ==
    /\ m_pc = "advisory"
    /\ m_pos < Len(metrics_alarm_list)
    /\ \E response \in AdvisoryResponses :
        LET r == AdvisoryBody(alarm_map, metrics_alarm_list[m_pos + 1], response) IN
        /\ alarm_map' = r.map
        /\ m_outcomes' = Append(m_outcomes, Outcome(response))
        /\ m_pos' = IF r.exc = "none" THEN m_pos + 1 ELSE m_pos
        /\ m_pc' = IF r.exc = "none" THEN "advisory" ELSE "aborted"
    /\ UNCHANGED <<metrics_alarm_list, basic_alarm_checks_dict, m_persisted,
                   hvars, svars>>

\* The advisory loop is exhausted.
MainAdvisoryDone ==
    /\ m_pc = "advisory"
    /\ m_pos = Len(metrics_alarm_list)
    /\ m_pc' = "persist"
    /\ UNCHANGED <<metrics_alarm_list, alarm_map, basic_alarm_checks_dict,
                   m_pos, m_outcomes, m_persisted, hvars, svars>>

\* write_alarm_description_to_dynamo(alarm_map): the items are put in key
\* order; the first put_item that raises (the n+1st, none when n is the
\* number of keys) ends the loop in the except clause.
MainWriteAlarmDescriptions ==
    /\ m_pc = "persist"
    /\ LET keys == KeyOrder(metrics_alarm_list) IN
       \E n \in 0..Len(keys) :
          m_persisted' = [k \in 1..n |-> Item(alarm_map, keys[k])]
    /\ m_pc' = "done"
    /\ UNCHANGED <<metrics_alarm_list, alarm_map, basic_alarm_checks_dict,
                   m_pos, m_outcomes, hvars, svars>>

MainNext ==
    \/ MainCreateAlarmMap
    \/ MainBasicAlarmChecks
    \/ MainWriteBasicAlarmChecks
    \/ MainAdvisoryIteration
    \/ MainAdvisoryDone
    \/ MainWriteAlarmDescriptions

\* The run of __main__.
Init == MainInit /\ HistoryIdle /\ StaticIdle
Next == MainNext
Spec == Init /\ [][Next]_vars

\* check_alarm_history on one alarm's history.
InitHistory == HistoryInit /\ StaticIdle /\ MainIdle
HistoryNext == HistoryLoopIteration \/ HistoryReturn
SpecHistory == InitHistory /\ [][HistoryNext]_vars

\* basic_alarm_checks on a list of alarms.
InitStatic == StaticInit /\ HistoryIdle /\ MainIdle
StaticNext == StaticLoopIteration \/ StaticReturn
SpecStatic == InitStatic /\ [][StaticNext]_vars

---------------------------------------------------------------------------
\* The two merges into the alarm map, called on a map built by
\* create_alarm_map: create_alarm_with_flags with the buckets of any list
\* of alarms, and the advisory merge with any decoded output.

EmptyDict == [k \in {} |-> ""]

LlmJsonOutputs == {LlmJsonFull, LlmJsonPartial, EmptyDict}

NoRaiseLists ==
    {l \in SeqsUpTo(MainAlarms, MaxAlarms) : basic_alarm_checks(l).exc = "none"}

MergeInit ==
    /\ metrics_alarm_list \in NoRaiseLists
    /\ alarm_map = create_alarm_map(metrics_alarm_list)
    /\ basic_alarm_checks_dict \in {basic_alarm_checks(l).buckets : l \in NoRaiseLists}
    /\ m_pos = 0
    /\ m_outcomes = <<>>
    /\ m_persisted = <<>>
    /\ m_pc = "merge"

\* create_alarm_with_flags(basic_alarm_checks_dict, alarm_map); a KeyError
\* leaves the map as far as it was updated.
MergeFlags ==
    /\ m_pc = "merge"
    /\ LET r == create_alarm_with_flags(basic_alarm_checks_dict, alarm_map) IN
        /\ alarm_map' = r.map
        /\ m_pc' = IF r.exc = "none" THEN "merge" ELSE "aborted"
    /\ UNCHANGED <<metrics_alarm_list, basic_alarm_checks_dict, m_pos,
                   m_outcomes, m_persisted, hvars, svars>>

\* Lines 610-615 for one alarm of the list and one decoded output.
MergeAdvisoryOf(alarm, llm_json_output) ==
    /\ m_pc = "merge"
    /\ alarm_map' = AdvisoryMerge(alarm_map, alarm["AlarmArn"], llm_json_output)
    /\ UNCHANGED <<metrics_alarm_list, basic_alarm_checks_dict, m_pos,
                   m_outcomes, m_persisted, m_pc, hvars, svars>>

MergeAdvisory ==
    \E alarm \in Range(metrics_alarm_list), llm_json_output \in LlmJsonOutputs :
        MergeAdvisoryOf(alarm, llm_json_output)

InitMerge == MergeInit /\ HistoryIdle /\ StaticIdle
MergeNext == MergeFlags \/ MergeAdvisory
SpecMerge == InitMerge /\ [][MergeNext]_vars

---------------------------------------------------------------------------
\* Properties of check_alarm_history (SpecHistory).

\* The start instant of one state of an item's payload: {} when it cannot
\* be read.
StartOf(item, state_type) ==
    IF ~item.HistoryData.valid THEN {}
    ELSE IF state_type \notin DOMAIN item.HistoryData.value THEN {}
    ELSE LET data == item.HistoryData.value[state_type].stateReasonData IN
         IF "startDate" \notin DOMAIN data \/ data.startDate = BadDate THEN {}
         ELSE {data.startDate}

StateValueOf(item, state_type) == item.HistoryData.value[state_type].stateValue

\* A state update whose payload is not JSON or lacks a readable start-date.
Malformed(item) ==
    /\ item.HistoryItemType = "StateUpdate"
    /\ (StartOf(item, "oldState") = {} \/ StartOf(item, "newState") = {})

IsTransition(item, from, to) ==
    /\ item.HistoryItemType = "StateUpdate"
    /\ ~Malformed(item)
    /\ StateValueOf(item, "oldState") = from
    /\ StateValueOf(item, "newState") = to

IsTrigger(item) == IsTransition(item, "OK", "ALARM")
IsResolve(item) == IsTransition(item, "ALARM", "OK")

\* New-state start-date minus old-state start-date of the same item.
Elapsed(item) ==
    (CHOOSE t \in StartOf(item, "newState") : TRUE)
    - (CHOOSE t \in StartOf(item, "oldState") : TRUE)

\* An item as the monitoring service writes it: a readable payload, and the
\* summary that goes with its two state values.
WellFormedItem(item) ==
    item.HistoryItemType = "StateUpdate" =>
        /\ ~Malformed(item)
        /\ (item.HistorySummary = SummaryTrigger) <=> IsTrigger(item)
        /\ (item.HistorySummary = SummaryResolve) <=> IsResolve(item)

WellFormedLog(log) == \A i \in 1..Len(log) : WellFormedItem(log[i])

\* How many items of the log satisfy P.
CountOf(log, P(_)) == Cardinality({i \in 1..Len(log) : P(log[i])})

Without(log, i) == [k \in 1..(Len(log) - 1) |-> IF k < i THEN log[k] ELSE log[k + 1]]

Finished == h_pc \in {"returned", "raised"}

\* C1: when exactly one item of the log is malformed, and the log without
\* it is one check_alarm_history returns on, the call returns, with the
\* counters of the log without the malformed item.
C1_MalformedEventSkipped ==
    \A i \in 1..Len(alarm_history) :
        ( /\ Finished
          /\ Malformed(alarm_history[i])
          /\ \A k \in 1..Len(alarm_history) : Malformed(alarm_history[k]) => k = i
          /\ check_alarm_history(Without(alarm_history, i)).exc = "none" )
        => /\ h_pc = "returned"
           /\ Counters(h_locals) =
                Counters(check_alarm_history(Without(alarm_history, i)))

LongLived(item) == IsResolve(item) /\ Elapsed(item) >= timedelta(48, 0)
ShortLived(item) == IsResolve(item) /\ Elapsed(item) <= timedelta(0, 2)

\* C2: on every well-formed log the call returns normally, with
\* long_lived_alarm_count the number of Resolve items that lasted >= 48h and
\* short_alarm_count the number that lasted <= 2min.
C2_ResolveCounters ==
    (Finished /\ WellFormedLog(alarm_history))
    => /\ h_pc = "returned"
       /\ h_locals.long_lived_alarm_count = CountOf(alarm_history, LongLived)
       /\ h_locals.short_alarm_count = CountOf(alarm_history, ShortLived)

Within24h(item) == IsTrigger(item) /\ Elapsed(item) <= timedelta(24, 0)
Within12h(item) == IsTrigger(item) /\ Elapsed(item) <= timedelta(12, 0)

\* C3: the counters check_alarm_history returns for a well-formed log:
\* long_term_issue_count is the number of Trigger items whose gap is <= 24h
\* and recurring_in_12_hours_count the number whose gap is <= 12h, both
\* bounds inclusive.
C3_TriggerCounters ==
    (h_pc = "returned" /\ WellFormedLog(alarm_history))
    => /\ h_locals.long_term_issue_count = CountOf(alarm_history, Within24h)
       /\ h_locals.recurring_in_12_hours_count = CountOf(alarm_history, Within12h)

\* A returned walk over two Triggers, one with a gap of exactly 12h (both
\* counters) and one with a gap between 12h and 24h (long-term only).
C3_Witness ==
    /\ h_pc = "returned"
    /\ WellFormedLog(alarm_history)
    /\ \E i, j \in 1..Len(alarm_history) :
        /\ IsTrigger(alarm_history[i]) /\ Elapsed(alarm_history[i]) = timedelta(12, 0)
        /\ IsTrigger(alarm_history[j]) /\ Elapsed(alarm_history[j]) > timedelta(12, 0)
        /\ Elapsed(alarm_history[j]) <= timedelta(24, 0)
    /\ h_locals.long_term_issue_count = 2
    /\ h_locals.recurring_in_12_hours_count = 1

DistinctTimestamps(log) ==
    \A i, j \in 1..Len(log) : i # j => log[i].Timestamp # log[j].Timestamp

\* The record timestamp of the k-th item taken.
TakenTimestamp(k) == alarm_history[h_processed[k]].Timestamp

\* C4: whatever the order of delivery, the items are taken in strictly
\* ascending order of their record timestamp.  Stated for the logs the
\* claim asks least of: well-formed ones whose timestamps are pairwise
\* distinct, so that a strict order exists and no item raises.
C4_AscendingTimestamps ==
    (DistinctTimestamps(alarm_history) /\ WellFormedLog(alarm_history))
    => \A i, j \in 1..Len(h_processed) :
          i < j => TakenTimestamp(i) < TakenTimestamp(j)

---------------------------------------------------------------------------
\* Properties of basic_alarm_checks (SpecStatic).

InBucket(alarm, check_type) == alarm \in Range(s_buckets[check_type])

\* The alarms that went through the whole loop body.
CheckedAlarms == {alarm_list[k] : k \in 1..s_pos}

\* C5: an alarm is put in high_threshold if and only if its threshold is
\* absent or strictly greater than 30.0; a present threshold <= 30.0 (0 and
\* negative values included) keeps it out.
C5_ThresholdTooHigh ==
    \A alarm \in CheckedAlarms :
        InBucket(alarm, "high_threshold")
        <=> ("Threshold" \notin DOMAIN alarm \/ alarm["Threshold"] > 30)

\* C6: an alarm is put in high_data_points if and only if its
\* datapoints-to-alarm is absent or strictly greater than 15; every present
\* value from 0 to 15 keeps it out.
C6_DataPointsTooHigh ==
    \A alarm \in CheckedAlarms :
        InBucket(alarm, "high_data_points")
        <=> ("DatapointsToAlarm" \notin DOMAIN alarm \/ alarm["DatapointsToAlarm"] > 15)

\* C7: basic_alarm_checks never raises, whichever optional fields are absent,
\* and once it has returned an alarm is in no_actions exactly when its
\* alarm-actions list is absent or empty and in no_description exactly when
\* its description is absent, empty or whitespace.
C7_NoErrorOnMissingFields ==
    /\ s_pc # "raised"
    /\ s_pc = "returned" =>
         \A alarm \in Range(alarm_list) :
            /\ InBucket(alarm, "no_actions")
               <=> ("AlarmActions" \notin DOMAIN alarm \/ alarm["AlarmActions"] = <<>>)
            /\ InBucket(alarm, "no_description")
               <=> ( \/ "AlarmDescription" \notin DOMAIN alarm
                     \/ \A i \in 1..Len(alarm["AlarmDescription"]) :
                           IsSpace(alarm["AlarmDescription"][i]) )

---------------------------------------------------------------------------
\* Properties of __main__ (Spec).

\* C8: output of the advisory service that is not JSON is not fatal: the
\* run goes on, and the alarm's record holds no assessment and no suggested
\* description.
C8_InvalidJsonNotFatal ==
    (m_outcomes # <<>> /\ m_outcomes[Len(m_outcomes)] = "not_json")
    => /\ m_pc # "aborted"
       /\ LET arn == metrics_alarm_list[Len(m_outcomes)]["AlarmArn"] IN
          /\ get(alarm_map[arn], "DescriptionAssessment") \in {{}, {{}}}
          /\ get(alarm_map[arn], "SuggestedDescription") \in {{}, {{}}}

PersistedIds == {m_persisted[k]["id"] : k \in 1..Len(m_persisted)}

\* C9: when the advisory step of one alarm of the run fails (the call or
\* the parsing of its response raises), the record of every alarm of the run
\* with another ARN is still handed to the persister by the end of the run.
C9_SiblingsStillPersisted ==
    ( /\ m_pc \in {"done", "aborted"}
      /\ m_outcomes # <<>>
      /\ m_outcomes[Len(m_outcomes)] # "json" )
    => \A j \in 1..Len(metrics_alarm_list) :
          metrics_alarm_list[j]["AlarmArn"]
            # metrics_alarm_list[Len(m_outcomes)]["AlarmArn"]
          => metrics_alarm_list[j]["AlarmArn"] \in PersistedIds

---------------------------------------------------------------------------
\* Properties of the two merges (SpecMerge).

\* The step from map old to map new keeps the keys, and changes or adds no
\* field of any record other than the <<arn, field>> pairs of touched.
OnlyTouched(old, new, touched) ==
    /\ DOMAIN new = DOMAIN old
    /\ \A arn \in DOMAIN old :
        /\ \A f \in DOMAIN old[arn] :
              <<arn, f>> \notin touched
              => (f \in DOMAIN new[arn] /\ new[arn][f] = old[arn][f])
        /\ \A f \in (DOMAIN new[arn]) \ (DOMAIN old[arn]) : <<arn, f>> \in touched

\* The fields an update by create_alarm_with_flags names: the bucket name,
\* in the record of each alarm of the bucket.
FlagFields(checks_dict) ==
    UNION {{<<checks_dict[c][k]["AlarmArn"], c>> : k \in 1..Len(checks_dict[c])}
            : c \in CheckTypes}

\* The fields the advisory merge for one alarm names.
AdvisoryFields(alarm) ==
    {<<alarm["AlarmArn"], "DescriptionAssessment">>,
     <<alarm["AlarmArn"], "SuggestedDescription">>}

\* C10: merging is field-level.  A call of create_alarm_with_flags changes
\* only the bucket-name flags of the records of the alarms in the buckets,
\* and an advisory merge only DescriptionAssessment and SuggestedDescription
\* of the alarm's record; every other field, every other record and the set
\* of ARN keys stay as they were.
C10_FieldLevelMerge ==
    [][ /\ MergeFlags
           => OnlyTouched(alarm_map, alarm_map', FlagFields(basic_alarm_checks_dict))
        /\ \A alarm \in Range(metrics_alarm_list), llm_json_output \in LlmJsonOutputs :
              MergeAdvisoryOf(alarm, llm_json_output)
              => OnlyTouched(alarm_map, alarm_map', AdvisoryFields(alarm)) ]_vars

\* Two records after both merges: one flagged no_description and carrying an
\* assessment beside its seeded name, the other touched by neither merge.
C10_Witness ==
    /\ m_pc = "merge"
    /\ \E a, b \in DOMAIN alarm_map :
        /\ a # b
        /\ get(alarm_map[a], "no_description") = {TRUE}
        /\ get(alarm_map[a], "DescriptionAssessment") = {{"vague"}}
        /\ alarm_map[a]["AlarmName"] = {a}
        /\ DOMAIN alarm_map[b] = DOMAIN create_alarm_map(metrics_alarm_list)[b]

---------------------------------------------------------------------------
\* The persisted record (Spec).

\* Whether the static checker placed an alarm with this ARN in the bucket.
PlacedIn(arn, check_type) ==
    \E k \in 1..Len(basic_alarm_checks_dict[check_type]) :
        basic_alarm_checks_dict[check_type][k]["AlarmArn"] = arn

\* C11: at the end of a run, every record handed to the persister carries,
\* for each of the four bucket names, a boolean flag that is true if and
\* only if the static checker placed the alarm in that bucket.
C11_PersistedFlags ==
    m_pc = "done" =>
        \A k \in 1..Len(m_persisted) : \A c \in CheckTypes :
            /\ c \in DOMAIN m_persisted[k]
            /\ m_persisted[k][c] = PlacedIn(m_persisted[k]["id"], c)

---------------------------------------------------------------------------
\* Classification of the items (SpecHistory).

\* The item the loop takes next.
NextItem == reversed(alarm_history)[h_pos + 1]

Plus(b) == IF b THEN 1 ELSE 0

\* C12: an item is treated as a Trigger exactly when its old state value is
\* OK and its new one ALARM, and as a Resolve exactly when they are ALARM
\* and OK, whatever its summary says; every other item leaves the four
\* counters as they were.  Stated for the items whose payload can be read.
C12_ClassifiedByStateValues ==
    [][ (HistoryLoopIteration /\ ~Malformed(NextItem)) =>
          /\ IsTrigger(NextItem) =>
                /\ h_locals'.long_term_issue_count =
                     h_locals.long_term_issue_count + Plus(Within24h(NextItem))
                /\ h_locals'.recurring_in_12_hours_count =
                     h_locals.recurring_in_12_hours_count + Plus(Within12h(NextItem))
          /\ IsResolve(NextItem) =>
                /\ h_locals'.long_lived_alarm_count =
                     h_locals.long_lived_alarm_count + Plus(LongLived(NextItem))
                /\ h_locals'.short_alarm_count =
                     h_locals.short_alarm_count + Plus(ShortLived(NextItem))
          /\ (~IsTrigger(NextItem) /\ ~IsResolve(NextItem)) =>
                Counters(h_locals') = Counters(h_locals) ]_vars

---------------------------------------------------------------------------
\* Order of delivery and the counters along the walk (SpecHistory).

\* The logs that hold the items of log in another order.
Reorderings(log) ==
    {[i \in 1..Len(log) |-> log[p[i]]] : p \in Permutations(1..Len(log))}

\* C13: the outcome does not depend on the order of delivery: for a
\* well-formed log, the call on any reordering of it returns normally exactly
\* when the call on the log does, and with the same four counters.
C13_OrderIndependent ==
    (Finished /\ WellFormedLog(alarm_history)) =>
        \A other \in Reorderings(alarm_history) :
            LET st == check_alarm_history(other) IN
            /\ (st.exc = "none") <=> (h_pc = "returned")
            /\ h_pc = "returned" => Counters(st) = Counters(h_locals)

\* How many of the items taken so far are Trigger (Resolve) items, by their
\* state values and by the summary the code tests.
TriggersTaken ==
    Cardinality({k \in 1..Len(h_processed) :
        /\ IsTrigger(alarm_history[h_processed[k]])
        /\ alarm_history[h_processed[k]].HistorySummary = SummaryTrigger})

ResolvesTaken ==
    Cardinality({k \in 1..Len(h_processed) :
        /\ IsResolve(alarm_history[h_processed[k]])
        /\ alarm_history[h_processed[k]].HistorySummary = SummaryResolve})

CountersOrdered(st) ==
    /\ st.recurring_in_12_hours_count <= st.long_term_issue_count
    /\ st.long_term_issue_count <= TriggersTaken
    /\ st.long_lived_alarm_count + st.short_alarm_count <= ResolvesTaken

CounterNames ==
    {"long_lived_alarm_count", "long_term_issue_count",
     "recurring_in_12_hours_count", "short_alarm_count"}

\* C14: at every point of the walk, and in the result,
\* recurring_in_12_hours_count <= long_term_issue_count <= the number of
\* Trigger items taken so far and long_lived_alarm_count + short_alarm_count
\* <= the number of Resolve items taken so far; no step lowers a counter or
\* raises one by more than 1.
C14_CounterBounds ==
    /\ [](CountersOrdered(h_locals))
    /\ [][ \A c \in CounterNames :
              h_locals[c] <= h_locals'[c] /\ h_locals'[c] <= h_locals[c] + 1 ]_vars

\* A returned walk over a Trigger with a gap in (12h, 24h] and a short
\* Resolve: recurring < long_term, and a Resolve counter raised.
C14_Witness ==
    /\ h_pc = "returned"
    /\ h_locals.long_term_issue_count = 1
    /\ h_locals.recurring_in_12_hours_count = 0
    /\ h_locals.short_alarm_count = 1
    /\ TriggersTaken = 1
    /\ ResolvesTaken = 1

====
